---- MODULE Spec2Model ----
(***************************************************************************)
(* The publish-orchestration Controller of pyblish-qml                     *)
(* (src/pyblish_qml/controller.py) as a state machine.                     *)
(*                                                                         *)
(* Threads.  The slots of the Controller (toggleInstance, togglePlugin,    *)
(* reset, stop, publish) and the handlers connected to its signals run on  *)
(* the thread the Controller lives in (the GUI thread), one at a time.     *)
(* start() spawns a plain Python thread per call; a signal emitted from    *)
(* such a thread is delivered through the GUI thread's event queue (Qt's   *)
(* automatic connection is queued across threads), a signal emitted on the *)
(* GUI thread runs its handler at once, inside the emit.                   *)
(***************************************************************************)
EXTENDS Naturals, Sequences, FiniteSets, Bags, TLC

VARIABLES
    instance_model,  \* self._instance_model.items, in collection order
    plugin_model,    \* self._plugin_model.items, in collection order
    system,          \* self._system
    is_running,      \* self._is_running
    has_errors,      \* self._has_errors
    threads,         \* the live threads of start(), a bag of [pc, response]
    events,          \* signals queued for the GUI thread, oldest first
    last,            \* what the last step did: operation, signals, requests
    halted,          \* the halt rule has fired in the current run
    inits,           \* the live threads of async_init(), a bag of [pc, ...]
    window,          \* app.py: the Window, "shown" or "closed", or "quit"
                     \* once the Application has left its event loop
    handled,         \* history: the step results handled since the last
                     \* successful publish(), reset() or init(), each
                     \* with whether it stopped the run
    settled          \* history: a finished signal was handled and no
                     \* publish() has succeeded since

vars == <<instance_model, plugin_model, system, is_running, has_errors,
          threads, events, last, halted, inits, window, handled, settled>>

----------------------------------------------------------------------------
(* Bounds of the model *)

\* threads of start() alive at the same time
MaxThreads == 2

\* signals waiting in the GUI thread's event queue
MaxEvents == 1

\* calls of async_init()
MaxInits == 2

----------------------------------------------------------------------------
(* The host: what its endpoints may answer *)

NoName == "None"

NoData == [instance |-> NoName, plugin |-> NoName, error |-> FALSE]

\* GET /instances: the lists of records the host may answer; publish is
\* True, absent ("None") or False
HostInstances ==
    {<<[name |-> "A", type |-> "Instance", optional |-> o, publish |-> p]>> :
        o \in BOOLEAN, p \in {"True", "None", "False"}}

\* GET /plugins: the lists of records the host may answer; update_plugins
\* singles out the type "Extractor", init() drops a record with active False
HostPlugins ==
    {<<[name |-> "P", type |-> "Validator", optional |-> FALSE, active |-> TRUE]>>,
     <<[name |-> "P", type |-> "Extractor", optional |-> TRUE, active |-> TRUE]>>,
     <<[name |-> "P", type |-> "Extractor", optional |-> TRUE, active |-> FALSE]>>}

\* the bodies of a 200 answer of POST /next, {instance?, plugin?, error?}:
\* the plug-in at work, with or without the instance it works on and with or
\* without an error, or the instance alone with an error
StepResults ==
    {d \in [instance : {"A", NoName}, plugin : {"P", NoName}, error : BOOLEAN] :
        d.plugin # NoName \/ (d.instance # NoName /\ d.error)}

\* a host with two instances, A selected and B not, a mandatory validator V
\* and an optional extractor E
ScenarioInstances ==
    {<<[name |-> "A", type |-> "Instance", optional |-> TRUE, publish |-> "True"],
       [name |-> "B", type |-> "Instance", optional |-> TRUE, publish |-> "False"]>>}

ScenarioPlugins ==
    {<<[name |-> "V", type |-> "Validator", optional |-> FALSE, active |-> TRUE],
       [name |-> "E", type |-> "Extractor", optional |-> TRUE, active |-> TRUE]>>}

\* the step results of that host: each names a plug-in and the instance it
\* works on, if any, with or without an error
ScenarioResults ==
    {[instance |-> NoName, plugin |-> "V", error |-> FALSE],
     [instance |-> "A", plugin |-> "V", error |-> TRUE],
     [instance |-> "A", plugin |-> "E", error |-> FALSE],
     [instance |-> "B", plugin |-> "E", error |-> TRUE]}

NoResponse == [status_code |-> 0, data |-> NoData]

\* the answers of POST /state: accepted, refused, or no answer at all
StateStatus == {200, 500, 0}

\* a request a step made to the host and the status it was answered with
Request(path, status) == [path |-> path, status |-> status]

\* the answers of POST /next: 200 with a step result, or no more work
NextResponses ==
    {[status_code |-> 200, data |-> d] : d \in StepResults}
        \cup {[status_code |-> 404, data |-> NoData]}

ScenarioResponses ==
    {[status_code |-> 200, data |-> d] : d \in ScenarioResults}
        \cup {[status_code |-> 404, data |-> NoData]}

----------------------------------------------------------------------------
(* model.py: Item and the item models *)

\* model.Item(**data): the record's fields over the defaults of an item
Item(data) ==
    [name |-> data.name,
     type |-> data.type,
     optional |-> data.optional,
     isToggled |-> TRUE,
     isProcessing |-> FALSE,
     currentProgress |-> 0,
     hasError |-> FALSE,
     succeeded |-> FALSE]

\* model.addItem(item)
addItem(model, item) == Append(model, item)

\* model.setData refuses to clear isToggled of an item that is not optional
ImmutableField(model, index, field, value) ==
    field = "isToggled" /\ value = FALSE /\ ~model[index].optional

\* model.setData(index, field, value); a refused call leaves the item as it is
setData(model, index, field, value) ==
    IF ImmutableField(model, index, field, value)
    THEN model
    ELSE [model EXCEPT ![index][field] = value]

\* a slip: the test of isToggled is left out, every name is collected
RECURSIVE ToggledNames_untested(_)
ToggledNames_untested(model) ==
    IF model = <<>> THEN <<>>
    ELSE <<Head(model).name>> \o ToggledNames_untested(Tail(model))

RECURSIVE ToggledNames(_)
\* the names of the toggled items of model.serialized, in collection order
ToggledNames(model) ==
    IF model = <<>> THEN <<>>
    ELSE LET rest == ToggledNames(Tail(model))
         IN  IF Head(model).isToggled THEN <<Head(model).name>> \o rest ELSE rest

----------------------------------------------------------------------------
(* Init: the Controller as __init__ leaves it *)

\* what a step did: the operation, the signals it emitted in order, the
\* requests it made to the host in order, the exception it ended with
Step(op, emitted, requests, raised) ==
    [op |-> op, emitted |-> emitted, requests |-> requests, raised |-> raised]

NoException == "None"

Init ==
    /\ instance_model = <<>>
    /\ plugin_model = <<>>
    /\ system = "empty"
    /\ is_running = FALSE
    /\ has_errors = FALSE
    /\ threads = EmptyBag
    /\ events = <<>>
    /\ last = Step("__init__", <<>>, <<>>, NoException)
    /\ halted = FALSE
    /\ inits = EmptyBag
    /\ window = "shown"
    /\ handled = {}
    /\ settled = FALSE

----------------------------------------------------------------------------
(* The Controller's helpers *)

RECURSIVE reset_state_errors_only(_)
\* a slip: reset_state without its last line, succeeded is left as it is
reset_state_errors_only(model) ==
    IF model = <<>> THEN <<>>
    ELSE LET one == <<Head(model)>>
         IN  setData(one, 1, "hasError", FALSE)
                 \o reset_state_errors_only(Tail(model))

RECURSIVE reset_state(_)
\* reset_state, for one model: "Reset data from last publish"
reset_state(model) ==
    IF model = <<>> THEN <<>>
    ELSE LET one == <<Head(model)>>
         IN  setData(setData(one, 1, "hasError", FALSE), 1, "succeeded", FALSE)
                 \o reset_state(Tail(model))

RECURSIVE reset_progress(_)
\* the loop of reset_status, for one model: "Reset progress bars"
reset_progress(model) ==
    IF model = <<>> THEN <<>>
    ELSE LET one == <<Head(model)>>
         IN  setData(setData(one, 1, "isProcessing", FALSE), 1, "currentProgress", 0)
                 \o reset_progress(Tail(model))

RECURSIVE update_instances_siblings_kept(_, _)
\* a slip: the instances the result does not name are left as they are
update_instances_siblings_kept(model, data) ==
    IF model = <<>> THEN <<>>
    ELSE LET one == <<Head(model)>>
             cur == setData(setData(one, 1, "isProcessing", TRUE), 1, "currentProgress", 1)
         IN  (IF data.instance = Head(model).name
              THEN IF data.error
                   THEN setData(cur, 1, "hasError", TRUE)
                   ELSE setData(cur, 1, "succeeded", TRUE)
              ELSE one)
                 \o update_instances_siblings_kept(Tail(model), data)

RECURSIVE update_instances(_, _)
\* update_instances: the named instance is at work, the others are not
update_instances(model, data) ==
    IF model = <<>> THEN <<>>
    ELSE LET one == <<Head(model)>>
             cur == setData(setData(one, 1, "isProcessing", TRUE), 1, "currentProgress", 1)
         IN  (IF data.instance = Head(model).name
              THEN IF data.error
                   THEN setData(cur, 1, "hasError", TRUE)
                   ELSE setData(cur, 1, "succeeded", TRUE)
              ELSE setData(one, 1, "isProcessing", FALSE))
                 \o update_instances(Tail(model), data)

\* a slip: the run stops at any plug-in once an error was recorded
halts_any_type(errors, item) == errors

\* update_plugins: the named plug-in stops the run
halts(errors, item) == errors /\ item.type = "Extractor"

RECURSIVE update_plugins_from(_, _, _)
\* the loop of update_plugins from item `index` on; st carries the model and
\* the flags the loop writes, st.stopped says the loop returned early
update_plugins_from(index, st, data) ==
    IF index > Len(st.model) THEN st
    ELSE IF data.plugin = st.model[index].name
    THEN IF halts(st.has_errors, st.model[index])
         THEN [st EXCEPT !.is_running = FALSE, !.stopped = TRUE]
         ELSE LET cur == setData(setData(st.model, index, "isProcessing", TRUE),
                                 index, "currentProgress", 1)
              IN  IF data.error
                  THEN update_plugins_from(index + 1,
                           [st EXCEPT !.model = setData(cur, index, "hasError", TRUE),
                                      !.has_errors = TRUE], data)
                  ELSE update_plugins_from(index + 1,
                           [st EXCEPT !.model = setData(cur, index, "succeeded", TRUE)], data)
    ELSE update_plugins_from(index + 1,
             [st EXCEPT !.model = setData(st.model, index, "isProcessing", FALSE)], data)

update_plugins(model, errors, running, data) ==
    update_plugins_from(1, [model |-> model, has_errors |-> errors,
                            is_running |-> running, stopped |-> FALSE], data)

\* a slip: the test of _is_running is left out
_toggle_item_unguarded(model, index) ==
    [model |-> setData(model, index, "isToggled", ~model[index].isToggled),
     emitted |-> <<>>,
     raised |-> IF ImmutableField(model, index, "isToggled", ~model[index].isToggled)
                THEN "ImmutableFieldError" ELSE NoException]

\* a slip: the field is written on the item, as init() does, not through
\* model.setData
_toggle_item_direct(model, index) ==
    IF is_running
    THEN [model |-> model, emitted |-> <<"error">>, raised |-> NoException]
    ELSE [model |-> [model EXCEPT ![index].isToggled = ~model[index].isToggled],
          emitted |-> <<>>, raised |-> NoException]

\* _toggle_item: the model after the call, the signals it emits and the
\* exception it ends with
_toggle_item(model, index) ==
    IF is_running
    THEN [model |-> model, emitted |-> <<"error">>, raised |-> NoException]
    ELSE [model |-> setData(model, index, "isToggled", ~model[index].isToggled),
          emitted |-> <<>>,
          raised |-> IF ImmutableField(model, index, "isToggled", ~model[index].isToggled)
                     THEN "ImmutableFieldError" ELSE NoException]

\* a slip: start() without its call of reset_state
start_without_reset ==
    /\ UNCHANGED <<instance_model, plugin_model>>
    /\ threads' = threads (+) SetToBag({[pc |-> "request", response |-> NoResponse]})

\* start(): reset_state, then a new thread about to run worker()
start ==
    /\ instance_model' = reset_state(instance_model)
    /\ plugin_model' = reset_state(plugin_model)
    /\ threads' = threads (+) SetToBag({[pc |-> "request", response |-> NoResponse]})

----------------------------------------------------------------------------
(* init(), and the slots on the GUI thread *)

\* init(), started once by async_init() on a Controller that holds nothing
\* yet: the four requests, then the items; Instances and Plugins are the
\* lists GET /instances and GET /plugins may answer
initialize(Instances, Plugins) ==
    /\ system = "empty"
    /\ \E instances \in Instances, plugins \in Plugins :
        /\ instance_model' =
               LET RECURSIVE add(_, _)
                   add(model, i) ==
                       IF i > Len(instances) THEN model
                       ELSE add(addItem(model,
                                    [Item(instances[i]) EXCEPT
                                        !.isToggled = instances[i].publish \in {"True", "None"}]),
                                i + 1)
               IN  add(instance_model, 1)
        /\ plugin_model' =
               LET RECURSIVE add(_, _)
                   add(model, i) ==
                       IF i > Len(plugins) THEN model
                       ELSE IF plugins[i].active = FALSE THEN add(model, i + 1)
                       ELSE add(addItem(model, Item(plugins[i])), i + 1)
               IN  add(plugin_model, 1)
    /\ system' = "application"
    /\ last' = Step("init", <<>>,
                    <<Request("/session", 200), Request("/instances", 200),
                      Request("/plugins", 200), Request("/application", 200)>>,
                    NoException)
    /\ UNCHANGED <<is_running, has_errors, threads, events, halted>>

init == initialize(HostInstances, HostPlugins)

toggleInstance(index) ==
    /\ index \in DOMAIN instance_model
    /\ LET r == _toggle_item(instance_model, index)
       IN  /\ instance_model' = r.model
           /\ last' = Step("toggleInstance", r.emitted, <<>>, r.raised)
    /\ UNCHANGED <<plugin_model, system, is_running, has_errors, threads, events, halted>>

togglePlugin(index) ==
    /\ index \in DOMAIN plugin_model
    /\ IF plugin_model[index].optional
       THEN LET r == _toggle_item(plugin_model, index)
            IN  /\ plugin_model' = r.model
                /\ last' = Step("togglePlugin", r.emitted, <<>>, r.raised)
       ELSE /\ plugin_model' = plugin_model
            /\ last' = Step("togglePlugin", <<"error">>, <<>>, NoException)
    /\ UNCHANGED <<instance_model, system, is_running, has_errors, threads, events, halted>>

reset ==
    /\ instance_model' = reset_state(instance_model)
    /\ plugin_model' = reset_state(plugin_model)
    /\ last' = Step("reset", <<>>, <<>>, NoException)
    /\ UNCHANGED <<system, is_running, has_errors, threads, events, halted>>

stop ==
    /\ is_running' = FALSE
    /\ last' = Step("stop", <<>>, <<>>, NoException)
    /\ UNCHANGED <<instance_model, plugin_model, system, has_errors, threads, events, halted>>

\* a slip: finished_handler clears hasError and succeeded as well
reset_status_sticky_cleared ==
    /\ has_errors' = FALSE
    /\ is_running' = FALSE
    /\ instance_model' = reset_state(reset_progress(instance_model))
    /\ plugin_model' = reset_state(reset_progress(plugin_model))

\* reset_status, called by finished_handler
reset_status ==
    /\ has_errors' = FALSE
    /\ is_running' = FALSE
    /\ instance_model' = reset_progress(instance_model)
    /\ plugin_model' = reset_progress(plugin_model)

\* publish(): the body of POST /state, {"context": context, "plugins":
\* plugins}, the names collected from the two models
state ==
    [context |-> ToggledNames(instance_model), plugins |-> ToggledNames(plugin_model)]

\* a slip: publish() without its finished.emit()
publish_nothing_unfinished ==
    /\ ToggledNames(instance_model) = <<>> \/ ToggledNames(plugin_model) = <<>>
    /\ last' = Step("publish", <<"error">>, <<>>, NoException)
    /\ UNCHANGED <<instance_model, plugin_model, system, is_running, has_errors,
                   threads, events, halted>>

\* publish(), no instance or no plug-in toggled: finished is emitted on the
\* GUI thread, so finished_handler runs inside the emit; then error
publish_nothing ==
    /\ ToggledNames(instance_model) = <<>> \/ ToggledNames(plugin_model) = <<>>
    /\ reset_status
    /\ last' = Step("publish", <<"finished", "error">>, <<Request("/session", 200)>>,
                    NoException)
    /\ UNCHANGED <<system, threads, events, halted>>

\* publish(), POST /state fails or answers another status than 200: the
\* except clause reads e.msg, which an Exception does not have, and the slot
\* ends with that AttributeError before error is emitted
publish_refused ==
    /\ ToggledNames(instance_model) # <<>> /\ ToggledNames(plugin_model) # <<>>
    /\ \E status \in StateStatus \ {200} :
           last' = Step("publish", <<"info">>, <<Request("/state", status)>>,
                        "AttributeError") @@ [state |-> state]
    /\ UNCHANGED <<instance_model, plugin_model, system, is_running, has_errors,
                   threads, events, halted>>

\* publish(), POST /state answers 200: _is_running, then start()
publish_started ==
    /\ ToggledNames(instance_model) # <<>> /\ ToggledNames(plugin_model) # <<>>
    /\ BagCardinality(threads) < MaxThreads
    /\ is_running' = TRUE
    /\ start
    /\ halted' = FALSE
    /\ last' = Step("publish", <<"info">>, <<Request("/state", 200)>>, NoException)
                   @@ [state |-> state]
    /\ UNCHANGED <<system, has_errors, events>>

publish == publish_nothing \/ publish_refused \/ publish_started

----------------------------------------------------------------------------
(* worker(), on a thread of its own; th is the thread's state *)

Moved(th, to) == (threads (-) SetToBag({th})) (+) SetToBag({to})

\* response = rest.request("POST", "/next"), then the test of
\* while self._is_running and response.status_code == 200.  The request
\* touches nothing of the Controller, so it is taken in one step with the
\* test that follows it, the thread's next access to the Controller's state.
\* A thread that leaves the loop never reads the response's body again, so
\* only its status is kept.  Responses are the answers POST /next may give.
request_next(th, Responses) ==
    /\ th.pc = "request"
    /\ \E r \in Responses :
        /\ IF is_running /\ r.status_code = 200
           THEN threads' = Moved(th, [pc |-> "emit", response |-> r])
           ELSE threads' = Moved(th, [pc |-> "finished",
                                      response |-> [r EXCEPT !.data = NoData]])
        /\ last' = Step("worker", <<>>, <<Request("/next", r.status_code)>>, NoException)
    /\ UNCHANGED <<instance_model, plugin_model, system, is_running, has_errors,
                   events, halted>>

worker_request(th) == request_next(th, NextResponses)

\* self.processed.emit(response.json()), queued for the GUI thread
worker_emit(th) ==
    /\ th.pc = "emit"
    /\ Len(events) < MaxEvents
    /\ events' = Append(events, [signal |-> "processed", data |-> th.response.data])
    /\ threads' = Moved(th, [pc |-> "request", response |-> NoResponse])
    /\ last' = Step("worker", <<"processed">>, <<>>, NoException)
    /\ UNCHANGED <<instance_model, plugin_model, system, is_running, has_errors, halted>>

\* self.finished.emit(), queued for the GUI thread, and the thread ends
worker_finished(th) ==
    /\ th.pc = "finished"
    /\ Len(events) < MaxEvents
    /\ events' = Append(events, [signal |-> "finished", data |-> NoData])
    /\ threads' = threads (-) SetToBag({th})
    /\ last' = Step("worker", <<"finished">>, <<>>, NoException)
    /\ UNCHANGED <<instance_model, plugin_model, system, is_running, has_errors, halted>>

----------------------------------------------------------------------------
(* The handlers of the queued signals, on the GUI thread *)

process_handler ==
    /\ events # <<>>
    /\ Head(events).signal = "processed"
    /\ LET data == Head(events).data
           st == update_plugins(plugin_model, has_errors, is_running, data)
       IN  /\ instance_model' = update_instances(instance_model, data)
           /\ plugin_model' = st.model
           /\ has_errors' = st.has_errors
           /\ is_running' = st.is_running
           /\ halted' = (halted \/ st.stopped)
           /\ last' = Step("process_handler", IF st.stopped THEN <<"info">> ELSE <<>>,
                           <<>>, NoException)
    /\ events' = Tail(events)
    /\ UNCHANGED <<system, threads>>

finished_handler ==
    /\ events # <<>>
    /\ Head(events).signal = "finished"
    /\ reset_status
    /\ events' = Tail(events)
    /\ last' = Step("finished_handler", <<>>, <<Request("/session", 200)>>, NoException)
    /\ UNCHANGED <<system, threads, halted>>

----------------------------------------------------------------------------
(* async_init() and init(), statement by statement; th is the thread's   *)
(* state: where it is, the lists it was answered and its place in them   *)

\* async_init(): a new thread about to run init(); the threads that have
\* ended stay in inits, at "done"
async_init ==
    /\ BagCardinality(inits) < MaxInits
    /\ inits' = inits (+) SetToBag({[pc |-> "/session", instances |-> <<>>,
                                     plugins |-> <<>>, index |-> 1]})
    /\ last' = Step("async_init", <<>>, <<>>, NoException)
    /\ UNCHANGED <<instance_model, plugin_model, system, is_running, has_errors,
                   threads, events, halted, window, handled, settled>>

\* the thread leaves a for loop it has run through
looped(th) ==
    IF th.pc = "instances" /\ th.index > Len(th.instances)
    THEN IF th.plugins = <<>>
         THEN [th EXCEPT !.pc = "done", !.index = 1]
         ELSE [th EXCEPT !.pc = "plugins", !.index = 1]
    ELSE IF th.pc = "plugins" /\ th.index > Len(th.plugins)
    THEN [th EXCEPT !.pc = "done", !.index = 1]
    ELSE th

Initializing(th, to) == (inits (-) SetToBag({th})) (+) SetToBag({looped(to)})

\* one of the four requests of init(); the last one assigns self._system
init_request(th) ==
    /\ th.pc \in {"/session", "/instances", "/plugins", "/application"}
    /\ \/ /\ th.pc = "/session"
          /\ inits' = Initializing(th, [th EXCEPT !.pc = "/instances"])
          /\ system' = system
       \/ /\ th.pc = "/instances"
          /\ \E instances \in ScenarioInstances :
                 inits' = Initializing(th, [th EXCEPT !.pc = "/plugins",
                                                     !.instances = instances])
          /\ system' = system
       \/ /\ th.pc = "/plugins"
          /\ \E plugins \in ScenarioPlugins :
                 inits' = Initializing(th, [th EXCEPT !.pc = "/application",
                                                     !.plugins = plugins])
          /\ system' = system
       \/ /\ th.pc = "/application"
          /\ inits' = Initializing(th, [th EXCEPT !.pc = "instances"])
          /\ system' = "application"
    /\ last' = Step("init", <<>>, <<Request(th.pc, 200)>>, NoException)
    /\ UNCHANGED <<instance_model, plugin_model, is_running, has_errors,
                   threads, events, halted, window, handled, settled>>

\* one turn of "for data in instances"
init_instance(th) ==
    /\ th.pc = "instances"
    /\ LET data == th.instances[th.index]
       IN  instance_model' =
               addItem(instance_model,
                       [Item(data) EXCEPT !.isToggled = data.publish \in {"True", "None"}])
    /\ inits' = Initializing(th, [th EXCEPT !.index = th.index + 1])
    /\ last' = Step("init", <<>>, <<>>, NoException)
    /\ UNCHANGED <<plugin_model, system, is_running, has_errors,
                   threads, events, halted, window, handled, settled>>

\* one turn of "for data in plugins"
init_plugin(th) ==
    /\ th.pc = "plugins"
    /\ LET data == th.plugins[th.index]
       IN  plugin_model' = IF data.active = FALSE THEN plugin_model
                           ELSE addItem(plugin_model, Item(data))
    /\ inits' = Initializing(th, [th EXCEPT !.index = th.index + 1])
    /\ last' = Step("init", <<>>, <<>>, NoException)
    /\ UNCHANGED <<instance_model, system, is_running, has_errors,
                   threads, events, halted, window, handled, settled>>

----------------------------------------------------------------------------
(* app.py: the Window and the Application *)

\* no thread of start() is alive and nothing of one waits in the queue
Idle == threads = EmptyBag /\ events = <<>>

\* controller.states, the phases the Controller is in: idle until init(),
\* publishing from a successful publish() until its finished is handled,
\* then finished while results of the run show, ready otherwise
states ==
    IF system = "empty" THEN {"idle"}
    ELSE IF is_running \/ ~Idle THEN {"publishing"}
    ELSE IF \E model \in {instance_model, plugin_model} :
                \E i \in DOMAIN model : model[i].hasError \/ model[i].succeeded
         THEN {"finished"}
         ELSE {"ready"}

\* Window.event(event) for a Close event; shift_pressed is what
\* queryKeyboardModifiers() answers.  An accepted Close event closes the
\* Window, an ignored one leaves it shown.
event(shift_pressed) ==
    /\ window = "shown"
    /\ IF shift_pressed
       THEN /\ last' = Step("event", <<"pyblishQmlCloseForced">>, <<>>, NoException)
            /\ window' = "closed"
       ELSE IF \E phase \in {"ready", "finished"} : phase \in states
       THEN /\ last' = Step("event", <<"pyblishQmlClose">>, <<>>, NoException)
            /\ window' = "closed"
       ELSE /\ last' = Step("event", <<>>, <<>>, NoException)
            /\ window' = "shown"
    /\ UNCHANGED <<instance_model, plugin_model, system, is_running, has_errors,
                   threads, events, halted, inits, handled, settled>>

\* the command "quit" read by _listen(), with the arguments of its payload:
\* quitted.emit(*args).  quitted takes no argument: emitted with none it is
\* delivered to QGuiApplication.quit, which leaves the event loop without a
\* Close event for the Window; emitted with one the emit raises TypeError,
\* which _listen() prints, and nothing else happens.
quitted(args) ==
    /\ window = "shown"
    /\ IF args = <<>>
       THEN /\ window' = "quit"
            /\ last' = Step("quit", <<>>, <<>>, NoException)
       ELSE /\ window' = "shown"
            /\ last' = Step("quit", <<>>, <<>>, "TypeError")
    /\ UNCHANGED <<instance_model, plugin_model, system, is_running, has_errors,
                   threads, events, halted, inits, handled, settled>>

----------------------------------------------------------------------------

\* The Controller after one init(), under any interleaving of its slots and
\* its threads; the Window stays open and no history is kept.
Rest == UNCHANGED <<inits, window, handled, settled>>

Next ==
    \/ init /\ Rest
    \/ \E index \in DOMAIN instance_model : toggleInstance(index) /\ Rest
    \/ \E index \in DOMAIN plugin_model : togglePlugin(index) /\ Rest
    \/ reset /\ Rest
    \/ stop /\ Rest
    \/ publish_nothing /\ Rest
    \/ publish_refused /\ Rest
    \/ publish_started /\ Rest
    \/ \E th \in BagToSet(threads) : worker_request(th) /\ Rest
    \/ \E th \in BagToSet(threads) : worker_emit(th) /\ Rest
    \/ \E th \in BagToSet(threads) : worker_finished(th) /\ Rest
    \/ process_handler /\ Rest
    \/ finished_handler /\ Rest

Spec == Init /\ [][Next]_vars

----------------------------------------------------------------------------
(* What the claims speak of *)

Count(seq, x) == Cardinality({i \in DOMAIN seq : seq[i] = x})

NoneToggled(model) == \A i \in DOMAIN model : ~model[i].isToggled

\* the step taken is publish() with no instance or no plug-in toggled
NothingToPublish ==
    /\ last'.op = "publish"
    /\ NoneToggled(instance_model) \/ NoneToggled(plugin_model)

\* the step taken is publish() whose POST /state was answered 200
Submitted ==
    /\ last'.op = "publish"
    /\ last'.requests = <<Request("/state", 200)>>

\* the step taken is publish() whose POST /state failed or was refused
Refused ==
    /\ last'.op = "publish"
    /\ \E status \in StateStatus \ {200} :
           last'.requests = <<Request("/state", status)>>

\* the step result names a plug-in of the extraction kind
NamesExtractor(data) ==
    \E i \in DOMAIN plugin_model :
        plugin_model[i].name = data.plugin /\ plugin_model[i].type = "Extractor"

----------------------------------------------------------------------------
(* The Controller with the scenario host, one processing loop at a time *)

\* the history variables after a step, read off what the step did
Observe ==
    /\ handled' = IF Submitted \/ last'.op \in {"reset", "init"} THEN {}
                  ELSE IF last'.op = "process_handler"
                       THEN handled \cup {[data |-> Head(events).data,
                                           halting |-> last'.emitted = <<"info">>]}
                       ELSE handled
    /\ settled' = IF Submitted THEN FALSE
                  ELSE IF \/ last'.op = "finished_handler"
                          \/ last'.op = "publish" /\ Count(last'.emitted, "finished") > 0
                       THEN TRUE
                       ELSE settled

\* The slots and threads of the Controller over the scenario host;
\* publish() is called only when the run before has ended.
NextItems ==
    \/ initialize(ScenarioInstances, ScenarioPlugins) /\ Rest
    \/ \E index \in DOMAIN instance_model : toggleInstance(index) /\ Rest
    \/ \E index \in DOMAIN plugin_model : togglePlugin(index) /\ Rest
    \/ reset /\ Rest
    \/ stop /\ Rest
    \/ Idle /\ publish_nothing /\ Rest
    \/ Idle /\ publish_refused /\ Rest
    \/ Idle /\ publish_started /\ Rest
    \/ \E th \in BagToSet(threads) : request_next(th, ScenarioResponses) /\ Rest
    \/ \E th \in BagToSet(threads) : worker_emit(th) /\ Rest
    \/ \E th \in BagToSet(threads) : worker_finished(th) /\ Rest
    \/ process_handler /\ Rest
    \/ finished_handler /\ Rest

\* the history is kept, the Window stays open
Seen == Observe /\ UNCHANGED <<inits, window>>

\* The same steps with the history kept; publish() is called at any time,
\* but starts a run only when the run before has ended.
NextHistory ==
    \/ initialize(ScenarioInstances, ScenarioPlugins) /\ Seen
    \/ \E index \in DOMAIN instance_model : toggleInstance(index) /\ Seen
    \/ \E index \in DOMAIN plugin_model : togglePlugin(index) /\ Seen
    \/ reset /\ Seen
    \/ stop /\ Seen
    \/ publish_nothing /\ Seen
    \/ publish_refused /\ Seen
    \/ Idle /\ publish_started /\ Seen
    \/ \E th \in BagToSet(threads) : request_next(th, ScenarioResponses) /\ Seen
    \/ \E th \in BagToSet(threads) : worker_emit(th) /\ Seen
    \/ \E th \in BagToSet(threads) : worker_finished(th) /\ Seen
    \/ process_handler /\ Seen
    \/ finished_handler /\ Seen

SpecItems == Init /\ [][NextItems]_vars

SpecHistory == Init /\ [][NextHistory]_vars

\* The threads of async_init(), with the toggles of the GUI thread
NextInit ==
    \/ async_init
    \/ \E th \in BagToSet(inits) : init_request(th)
    \/ \E th \in BagToSet(inits) : init_instance(th)
    \/ \E th \in BagToSet(inits) : init_plugin(th)
    \/ \E index \in DOMAIN instance_model : toggleInstance(index) /\ Rest
    \/ \E index \in DOMAIN plugin_model : togglePlugin(index) /\ Rest

SpecInit == Init /\ [][NextInit]_vars

\* The Application: the steps of the Controller while the Window is shown,
\* the Close events of the window system and the quit command of the host.
NextApp ==
    \/ window = "shown" /\ NextItems
    \/ \E shift_pressed \in BOOLEAN : event(shift_pressed)
    \/ \E args \in {<<>>, <<TRUE>>} : quitted(args)

SpecApp == Init /\ [][NextApp]_vars

----------------------------------------------------------------------------
(* The claims *)

\* C1: at every moment at most one processing loop is alive; publish()
\* while a loop runs starts no second one.
C1_OneLoop == BagCardinality(threads) <= 1

C3_NoAdvanceAfterHalt ==
    [][halted =>
          ~(last'.op = "worker" /\ \E i \in DOMAIN last'.requests :
                                      last'.requests[i].path = "/next")]_vars

\* C4: publish() with no instance or no plug-in toggled makes no request to
\* the host, the handlers of the signals it emits included.
C4_NoHostCall == [][NothingToPublish => last'.requests = <<>>]_vars

\* C5: publish() with no instance or no plug-in toggled emits exactly one
\* error and exactly one finished, starts no thread, queues nothing and does
\* not leave _is_running set.
C5_NothingToPublish ==
    [][NothingToPublish =>
          /\ Count(last'.emitted, "error") = 1
          /\ Count(last'.emitted, "finished") = 1
          /\ threads' = threads
          /\ events' = events
          /\ ~is_running']_vars

\* C5, its case: publish() has run with an instance in the model and none
\* toggled.
C5_Rejected ==
    /\ last.op = "publish"
    /\ instance_model # <<>> /\ NoneToggled(instance_model)
    /\ last.emitted = <<"finished", "error">>

\* C6: toggleInstance and togglePlugin, called while _is_running, emit error
\* and change no item and no flag of the run.
C6_NoToggleWhileRunning ==
    [][(is_running /\ last'.op \in {"toggleInstance", "togglePlugin"}) =>
          /\ last'.emitted = <<"error">>
          /\ UNCHANGED <<instance_model, plugin_model, is_running, has_errors>>]_vars

\* C6, its case: togglePlugin of an optional plug-in was called during a run.
C6_ToggledWhileRunning ==
    /\ last.op = "togglePlugin"
    /\ last.emitted = <<"error">>
    /\ is_running
    /\ \E i \in DOMAIN plugin_model : plugin_model[i].optional

C8_EveryResultEmitted ==
    \A th \in BagToSet(threads) :
        th.pc = "finished" => th.response.status_code # 200

C10_RefusedSubmission ==
    [][Refused =>
          /\ Count(last'.emitted, "error") = 1
          /\ threads' = threads
          /\ events' = events
          /\ is_running' = is_running]_vars


C12_ErrorOrSuccess ==
    /\ \A i \in DOMAIN instance_model :
           ~(instance_model[i].hasError /\ instance_model[i].succeeded)
    /\ \A i \in DOMAIN plugin_model :
           ~(plugin_model[i].hasError /\ plugin_model[i].succeeded)

\* the items of model keep their place, their name and their isToggled and
\* have hasError and succeeded cleared in model2
Cleared(model, model2) ==
    /\ Len(model2) = Len(model)
    /\ \A i \in DOMAIN model :
           /\ model2[i].name = model[i].name
           /\ model2[i].isToggled = model[i].isToggled
           /\ ~model2[i].hasError
           /\ ~model2[i].succeeded

\* C13: reset(), in whatever state it is called, clears hasError and
\* succeeded of every item of both models and leaves the items, their order
\* and their isToggled as they are.
C13_ResetClears ==
    [][last'.op = "reset" =>
          /\ Cleared(instance_model, instance_model')
          /\ Cleared(plugin_model, plugin_model')]_vars

\* C13, its case: reset() was called during a run, with an instance and a
\* plug-in already folded, on models holding a toggled and an untoggled
\* item.
C13_ResetInRun ==
    /\ last.op = "reset"
    /\ is_running
    /\ \E i \in DOMAIN instance_model : instance_model[i].currentProgress = 1
    /\ \E i \in DOMAIN plugin_model : plugin_model[i].currentProgress = 1
    /\ \E i, j \in DOMAIN instance_model :
           instance_model[i].isToggled /\ ~instance_model[j].isToggled

\* C14: a close request without the force override (a Close event without
\* Shift, the quit command without the force flag) closes the Window, with
\* the notification pyblishQmlClose, when the Controller is ready or
\* finished, and is ignored in every other phase; a close request with the
\* override (a Close event with Shift, the quit command with the force flag)
\* closes it in every phase with the notification pyblishQmlCloseForced.
C14_CloseGated ==
    [][/\ (event(FALSE) \/ quitted(<<>>)) =>
              IF states \cap {"ready", "finished"} # {}
              THEN window' # "shown" /\ last'.emitted = <<"pyblishQmlClose">>
              ELSE window' = "shown" /\ last'.emitted = <<>>
       /\ (event(TRUE) \/ quitted(<<TRUE>>)) =>
              window' # "shown" /\ last'.emitted = <<"pyblishQmlCloseForced">>]_vars

\* C15, the part a finite run decides: after stop(), with no publish()
\* after it, the loop emits no further processed signal.  Stated for the
\* step that follows stop().
C15_NoProcessedAfterStop ==
    [][last.op = "stop" =>
          ~(last'.op = "worker" /\ last'.emitted = <<"processed">>)]_vars

\* the items of model are those of one answer of the host, in its order
BuiltFrom(model, answers) ==
    \E records \in answers :
        /\ Len(model) = Len(records)
        /\ \A i \in DOMAIN model : model[i].name = records[i].name

\* C16: at most one init() is in flight at a time, and when none is, after
\* one or more have run, each model holds the items of one answer of the
\* host and no others.
C16_OneInitialization ==
    /\ Cardinality({th \in BagToSet(inits) : th.pc # "done"}) <= 1
    /\ (inits # EmptyBag /\ \A th \in BagToSet(inits) : th.pc = "done") =>
           /\ BuiltFrom(instance_model, ScenarioInstances)
           /\ BuiltFrom(plugin_model, ScenarioPlugins)

\* C17: _has_errors is false when a processing loop starts, and reset()
\* leaves it false.
C17_ErrorsReset ==
    [][/\ Submitted => ~has_errors'
       /\ last'.op = "reset" => ~has_errors']_vars

\* names are the names of the toggled items of model, each once, in the
\* order of the model
Selection(names, model) ==
    \E at \in [DOMAIN names -> DOMAIN model] :
        /\ \A j, k \in DOMAIN names : j < k => at[j] < at[k]
        /\ \A i \in DOMAIN model : model[i].isToggled <=> \E k \in DOMAIN names : at[k] = i
        /\ \A k \in DOMAIN names : names[k] = model[at[k]].name

\* the step taken is publish() with a POST /state, accepted or not
Posted ==
    /\ last'.op = "publish"
    /\ \E status \in StateStatus : last'.requests = <<Request("/state", status)>>

\* C18: publish() with a toggled instance and a toggled plug-in posts as
\* context the names of the toggled instances and as plugins the names of
\* the toggled plug-ins, in the order of the models, none more and none
\* less.
C18_PostsSelection ==
    [][/\ Posted =>
              /\ Selection(last'.state.context, instance_model)
              /\ Selection(last'.state.plugins, plugin_model)
       /\ (last'.op = "publish"
             /\ ~NoneToggled(instance_model)
             /\ ~NoneToggled(plugin_model)) => Posted]_vars

\* C18, its case: publish() was called with the second instance toggled and
\* the first not, and with both plug-ins toggled.
C18_PostedSecond ==
    /\ last.op = "publish"
    /\ last.requests = <<Request("/state", 200)>>
    /\ last.state = [context |-> <<"B">>, plugins |-> <<"V", "E">>]
    /\ ~instance_model[1].isToggled /\ instance_model[2].isToggled

\* the flags of the items of model as the handled results name them: field
\* is the key of a result that names an item of model, counted says which
\* results count
Folded(model, field, counted) ==
    \A i \in DOMAIN model :
        LET naming == {h \in counted : h.data[field] = model[i].name}
        IN  /\ \A h \in naming : IF h.data.error THEN model[i].hasError
                                                ELSE model[i].succeeded
            /\ naming = {} => ~model[i].hasError /\ ~model[i].succeeded

TogglesKept ==
    /\ Len(instance_model') = Len(instance_model)
    /\ Len(plugin_model') = Len(plugin_model)
    /\ \A i \in DOMAIN instance_model :
           instance_model'[i].isToggled = instance_model[i].isToggled
    /\ \A i \in DOMAIN plugin_model :
           plugin_model'[i].isToggled = plugin_model[i].isToggled

Quiescent ==
    /\ ~is_running
    /\ ~has_errors
    /\ \A i \in DOMAIN instance_model :
           ~instance_model[i].isProcessing /\ instance_model[i].currentProgress = 0
    /\ \A i \in DOMAIN plugin_model :
           ~plugin_model[i].isProcessing /\ plugin_model[i].currentProgress = 0

\* C20: whenever a finished signal has been handled and no publish() has
\* succeeded since, the Controller is quiescent: not running, no errors, no
\* item in progress.
C20_QuiescentOnceFinished == settled => Quiescent

====
